---- MODULE Spec2Model ----
(***************************************************************************)
(* Model of src/utilities/loadSampleData.ts: the sample-data seeding       *)
(* script.  One run lists the fixture files, connects, deletes all         *)
(* documents of ten models (resetDatabase), inserts the fixtures of the    *)
(* selected collections, prints the document counts and exits.             *)
(*                                                                         *)
(* The database and the file system are the environment: every awaited     *)
(* database call either succeeds or rejects, a fixture file is absent,     *)
(* malformed or a JSON array of records.                                   *)
(***************************************************************************)
EXTENDS Integers, Sequences, FiniteSets, TLC

\* ---------------------------------------------------------------- bounds
MaxItems == 2      \* longest --items list the model enumerates
MaxDocs  == 2      \* most records in a fixture file / stale documents

\* ------------------------------------------------------------ constants
\* a reset that leaves out Post.deleteMany
resetModelsNoPost ==
  << "Community", "User", "Organization", "ActionItemCategory",
     "AgendaCategoryModel", "Event", "Venue", "RecurrenceRule",
     "AppUserProfile" >>

\* the models resetDatabase deletes, in the order of its deleteMany calls
resetModels ==
  << "Community", "User", "Organization", "ActionItemCategory",
     "AgendaCategoryModel", "Event", "Venue", "RecurrenceRule", "Post",
     "AppUserProfile" >>

\* the default list of collections to insert
collections ==
  << "users", "organizations", "posts", "events", "venue",
     "recurrenceRules", "appUserProfiles", "actionItemCategories",
     "agendaCategories" >>

\* the { name, model } table of checkCountAfterImport, in its order
countTable ==
  << <<"users", "User">>, <<"organizations", "Organization">>,
     <<"actionItemCategories", "ActionItemCategory">>,
     <<"agendaCategories", "AgendaCategoryModel">>,
     <<"events", "Event">>, <<"recurrenceRules", "RecurrenceRule">>,
     <<"posts", "Post">>, <<"venue", "Venue">>,
     <<"appUserProfiles", "AppUserProfile">> >>

Range(s) == { s[i] : i \in DOMAIN s }

\* the models imported from ../models and ../models/RecurrenceRule
Models ==
  { "ActionItemCategory", "AgendaCategoryModel", "AppUserProfile",
    "Community", "Event", "Organization", "Post", "User", "Venue",
    "RecurrenceRule" }

\* the case labels of the switch in insertCollections
FixedNames ==
  { "users", "organizations", "actionItemCategories", "agendaCategories",
    "events", "venue", "recurrenceRules", "posts", "appUserProfiles" }

\* a mis-dispatching switch: "events" is inserted through the User model
ModelOfSwapped(name) ==
  CASE name = "users"                -> "User"
    [] name = "organizations"        -> "Organization"
    [] name = "actionItemCategories" -> "ActionItemCategory"
    [] name = "agendaCategories"     -> "AgendaCategoryModel"
    [] name = "events"               -> "User"
    [] name = "venue"                -> "Venue"
    [] name = "recurrenceRules"      -> "RecurrenceRule"
    [] name = "posts"                -> "Post"
    [] name = "appUserProfiles"      -> "AppUserProfile"
    [] OTHER                         -> "none"

\* the switch of insertCollections: collection name -> model, "none" for
\* the default branch
ModelOf(name) ==
  CASE name = "users"                -> "User"
    [] name = "organizations"        -> "Organization"
    [] name = "actionItemCategories" -> "ActionItemCategory"
    [] name = "agendaCategories"     -> "AgendaCategoryModel"
    [] name = "events"               -> "Event"
    [] name = "venue"                -> "Venue"
    [] name = "recurrenceRules"      -> "RecurrenceRule"
    [] name = "posts"                -> "Post"
    [] name = "appUserProfiles"      -> "AppUserProfile"
    [] OTHER                         -> "none"

\* ------------------------------------------------------- the environment
\* A collection holds documents whose _id came from a fixture record
\* (ids, the record's position stands for its _id) and documents whose _id
\* the store generated (anon).
Empty == [ids |-> {}, anon |-> 0]
Stale == [ids |-> {1}, anon |-> MaxDocs - 1]

Count(content) == Cardinality(content.ids) + content.anon

\* A fixture file ../../sample_data/<name>.json
\*   kind "missing"   : no such file
\*        "malformed" : the file is not JSON
\*        "ids"       : an array of len records that carry an _id
\*        "noids"     : an array of len records without _id
Fixture(k, n) == [kind |-> k, len |-> n]

FileNames == FixedNames \cup {"bogus"}

\* the names an --items list is built from
ItemNames == {"users", "events", "bogus"}

ItemLists ==
  UNION { [1..n -> ItemNames] : n \in 1..MaxItems }

\* the values of argv.items: <<>> is an absent (or empty) flag
ArgvChoices == {<< >>} \cup ItemLists

\* the fixture directories the model enumerates
FixtureChoices ==
  { [f \in FileNames |->
       CASE f = "users"  -> Fixture(uk, ul)
         [] f = "events" -> Fixture(ek, 1)
         [] f = "bogus"  -> Fixture(bk, 1)
         [] OTHER        -> Fixture("ids", 1)] :
     uk \in {"missing", "malformed", "ids", "noids"},
     ul \in 1..MaxDocs,
     ek \in {"missing", "ids"},
     bk \in {"missing", "noids"} }

\* the database contents before the first run
DbChoices ==
  { [m \in Models |-> IF m \in D THEN Stale ELSE Empty] :
     D \in { {}, {"User"}, {"Post", "Community"}, Models } }

Counts(d) == [m \in Models |-> Count(d[m])]

VARIABLES
  pc,              \* the position of the script
  argvItems,       \* argv.items, split at ","
  fixtures,        \* the sample_data directory
  db,              \* the collections of the database
  items,           \* the list passed to insertCollections
  idx,             \* position of the for..of loop of insertCollections
  delIdx,          \* next deleteMany of resetDatabase
  cntIdx,          \* position of the loop of checkCountAfterImport
  thrown,          \* resetDatabase has an error to rethrow
  failed,          \* the step whose error reached the catch of insertCollections
  errors,          \* the handlers that logged an error
  stages,          \* the stages entered, in order
  inserts,         \* the insertMany calls issued: << list position, model >>
  reported,        \* the rows printed by checkCountAfterImport
  successPrinted,  \* "Collections added successfully" was printed
  sessionsStarted, \* sessions returned by mongoose.startSession
  sessionsEnded,   \* calls of session.endSession
  resetDone,       \* resetDatabase returned normally
  dbAtReset,       \* the database when resetDatabase was called
  exitCodes,       \* the codes passed to process.exit
  rerun,           \* this is the second run of the script
  firstCounts,     \* the document counts the first run left
  firstFailed      \* the value of failed at the end of the first run

vars ==
  << pc, argvItems, fixtures, db, items, idx, delIdx, cntIdx, thrown,
     failed, errors, stages, inserts, reported, successPrinted,
     sessionsStarted, sessionsEnded, resetDone, dbAtReset, exitCodes,
     rerun, firstCounts, firstFailed >>

envVars == << argvItems, fixtures, rerun, firstCounts, firstFailed >>

\* the state of a freshly started process
FreshRun ==
  /\ items = << >>
  /\ idx = 1
  /\ delIdx = 1
  /\ cntIdx = 1
  /\ thrown = FALSE
  /\ failed = "none"
  /\ errors = {}
  /\ stages = << >>
  /\ inserts = << >>
  /\ reported = << >>
  /\ successPrinted = FALSE
  /\ sessionsStarted = 0
  /\ sessionsEnded = 0
  /\ resetDone = FALSE
  /\ exitCodes = << >>

Init ==
  /\ pc = "main"
  /\ argvItems \in ArgvChoices
  /\ fixtures \in FixtureChoices
  /\ db \in DbChoices
  /\ dbAtReset = db
  /\ FreshRun
  /\ rerun = FALSE
  /\ firstCounts = Counts(db)
  /\ firstFailed = "none"

\* ------------------------------------------------------------ main IIFE
\* if (argvItems) insertCollections(argvItems.split(","))
\* else           insertCollections(collections)
Main ==
  /\ pc = "main"
  /\ items' = IF argvItems # << >> THEN argvItems ELSE collections
  /\ pc' = "list"
  /\ UNCHANGED << db, idx, delIdx, cntIdx, thrown, failed, errors, stages,
                  inserts, reported, successPrinted, sessionsStarted,
                  sessionsEnded, resetDone, dbAtReset, exitCodes, envVars >>

\* listSampleData: readdir, then stat/readFile/JSON.parse of every file;
\* any error is caught and logged, the function always returns.
ListSampleData ==
  /\ pc = "list"
  /\ \E fsOk \in BOOLEAN :
       LET parseOk == \A f \in FileNames : fixtures[f].kind # "malformed"
       IN  errors' = IF fsOk /\ parseOk THEN errors ELSE errors \cup {"list"}
  /\ stages' = Append(stages, "list")
  /\ pc' = "connect"
  /\ UNCHANGED << db, items, idx, delIdx, cntIdx, thrown, failed, inserts,
                  reported, successPrinted, sessionsStarted, sessionsEnded,
                  resetDone, dbAtReset, exitCodes, envVars >>

\* ---------------------------------------------------- insertCollections
\* await connect("talawa-api")
Connect ==
  /\ pc = "connect"
  /\ \E ok \in BOOLEAN :
       IF ok
       THEN /\ pc' = "startSession"
            /\ stages' = Append(stages, "reset")
            /\ dbAtReset' = db
            /\ UNCHANGED failed
       ELSE /\ pc' = "catch"
            /\ failed' = "connect"
            /\ UNCHANGED << stages, dbAtReset >>
  /\ UNCHANGED << db, items, idx, delIdx, cntIdx, thrown, errors, inserts,
                  reported, successPrinted, sessionsStarted, sessionsEnded,
                  resetDone, exitCodes, envVars >>

\* ---------------------------------------------------------- resetDatabase
\* const session = await mongoose.startSession()   (outside the try)
StartSession ==
  /\ pc = "startSession"
  /\ \E ok \in BOOLEAN :
       IF ok
       THEN /\ pc' = "transaction"
            /\ sessionsStarted' = sessionsStarted + 1
            /\ UNCHANGED failed
       ELSE /\ pc' = "catch"
            /\ failed' = "reset"
            /\ UNCHANGED sessionsStarted
  /\ delIdx' = 1
  /\ UNCHANGED << db, items, idx, cntIdx, thrown, errors, stages, inserts,
                  reported, successPrinted, sessionsEnded, resetDone,
                  dbAtReset, exitCodes, envVars >>

\* a deleteMany that deletes nothing
deleteManyKeeps(content) == content

\* Model.deleteMany({}): every document of the collection is removed
deleteMany(content) == Empty

\* One awaited deleteMany of the withTransaction callback.  The call is
\* Model.deleteMany({}) with no { session } option, so it is applied to the
\* database at once and is not part of the session's transaction: when a
\* later deleteMany rejects, the transaction that is aborted is empty.
DeleteStep ==
  /\ pc = "transaction"
  /\ delIdx \in DOMAIN resetModels
  /\ \E ok \in BOOLEAN :
       IF ok
       THEN /\ db' = [db EXCEPT ![resetModels[delIdx]] = deleteMany(@)]
            /\ delIdx' = delIdx + 1
            /\ UNCHANGED pc
       ELSE /\ pc' = "resetCatch"
            /\ UNCHANGED << db, delIdx >>
  /\ UNCHANGED << items, idx, cntIdx, thrown, failed, errors, stages,
                  inserts, reported, successPrinted, sessionsStarted,
                  sessionsEnded, resetDone, dbAtReset, exitCodes, envVars >>

\* the callback returned: withTransaction commits (an empty transaction)
\* and "Database reset completed." is logged
CommitTransaction ==
  /\ pc = "transaction"
  /\ delIdx = Len(resetModels) + 1
  /\ pc' = "resetFinally"
  /\ UNCHANGED << db, items, idx, delIdx, cntIdx, thrown, failed, errors,
                  stages, inserts, reported, successPrinted, sessionsStarted,
                  sessionsEnded, resetDone, dbAtReset, exitCodes, envVars >>

\* a catch block that logs and swallows the error
ResetCatchSwallows ==
  /\ pc = "resetCatch"
  /\ errors' = errors \cup {"reset"}
  /\ pc' = "resetFinally"
  /\ UNCHANGED << db, items, idx, delIdx, cntIdx, thrown, failed, stages,
                  inserts, reported, successPrinted, sessionsStarted,
                  sessionsEnded, resetDone, dbAtReset, exitCodes, envVars >>

\* catch (error) { console.error("Database reset failed:", error); throw error }
ResetCatch ==
  /\ pc = "resetCatch"
  /\ errors' = errors \cup {"reset"}
  /\ thrown' = TRUE
  /\ pc' = "resetFinally"
  /\ UNCHANGED << db, items, idx, delIdx, cntIdx, failed, stages, inserts,
                  reported, successPrinted, sessionsStarted, sessionsEnded,
                  resetDone, dbAtReset, exitCodes, envVars >>

\* a cleanup that runs on the success path only
EndSessionOnSuccess ==
  /\ pc = "resetFinally"
  /\ sessionsEnded' = IF thrown THEN sessionsEnded ELSE sessionsEnded + 1
  /\ IF thrown
     THEN /\ pc' = "catch"
          /\ failed' = "reset"
          /\ UNCHANGED << resetDone, stages, idx >>
     ELSE /\ pc' = "read"
          /\ resetDone' = TRUE
          /\ stages' = Append(stages, "load")
          /\ idx' = 1
          /\ UNCHANGED failed
  /\ UNCHANGED << db, items, delIdx, cntIdx, thrown, errors, inserts,
                  reported, successPrinted, sessionsStarted, dbAtReset,
                  exitCodes, envVars >>

\* finally { await session.endSession() }, then resetDatabase returns or
\* rethrows; on return the for..of loop of insertCollections starts
EndSession ==
  /\ pc = "resetFinally"
  /\ sessionsEnded' = sessionsEnded + 1
  /\ IF thrown
     THEN /\ pc' = "catch"
          /\ failed' = "reset"
          /\ UNCHANGED << resetDone, stages, idx >>
     ELSE /\ pc' = "read"
          /\ resetDone' = TRUE
          /\ stages' = Append(stages, "load")
          /\ idx' = 1
          /\ UNCHANGED failed
  /\ UNCHANGED << db, items, delIdx, cntIdx, thrown, errors, inserts,
                  reported, successPrinted, sessionsStarted, dbAtReset,
                  exitCodes, envVars >>

\* ------------------------------------------------- the for..of loop body
Min(S) == CHOOSE x \in S : \A y \in S : x <= y

\* Model.insertMany(docs), ordered: the records are inserted in order up to
\* the first one the store rejects.  A record with an _id already in the
\* collection is rejected (duplicate key); any call may also reject for a
\* reason of its own after k records.  The result is the set of possible
\* [content, ok] outcomes.
insertMany(content, fx) ==
  IF fx.kind = "ids"
  THEN LET dup   == { i \in 1..fx.len : i \in content.ids }
           limit == IF dup = {} THEN fx.len - 1 ELSE Min(dup) - 1
       IN  { [content |-> [content EXCEPT !.ids = @ \cup (1..k)],
              ok |-> FALSE] : k \in 0..limit }
           \cup
           ( IF dup = {}
             THEN { [content |-> [content EXCEPT !.ids = @ \cup (1..fx.len)],
                     ok |-> TRUE] }
             ELSE {} )
  ELSE { [content |-> [content EXCEPT !.anon = @ + k], ok |-> FALSE] :
           k \in 0..(fx.len - 1) }
       \cup
       { [content |-> [content EXCEPT !.anon = @ + fx.len], ok |-> TRUE] }

\* await fs.readFile(`../../sample_data/${collection}.json`): issued for
\* every name of the list, before the switch looks at the name
ReadFile ==
  /\ pc = "read"
  /\ idx \in DOMAIN items
  /\ IF fixtures[items[idx]].kind = "missing"
     THEN /\ pc' = "catch"
          /\ failed' = "read"
     ELSE /\ pc' = "parse"
          /\ UNCHANGED failed
  /\ UNCHANGED << db, items, idx, delIdx, cntIdx, thrown, errors, stages,
                  inserts, reported, successPrinted, sessionsStarted,
                  sessionsEnded, resetDone, dbAtReset, exitCodes, envVars >>

\* const docs = JSON.parse(data)
ParseJson ==
  /\ pc = "parse"
  /\ IF fixtures[items[idx]].kind = "malformed"
     THEN /\ pc' = "catch"
          /\ failed' = "parse"
     ELSE /\ pc' = "switch"
          /\ UNCHANGED failed
  /\ UNCHANGED << db, items, idx, delIdx, cntIdx, thrown, errors, stages,
                  inserts, reported, successPrinted, sessionsStarted,
                  sessionsEnded, resetDone, dbAtReset, exitCodes, envVars >>

\* the end of one iteration: console.log(`Added ${collection} collection`),
\* then the next name, or checkCountAfterImport after the last one
LoopNext ==
  /\ idx' = idx + 1
  /\ IF idx + 1 \in DOMAIN items
     THEN /\ pc' = "read"
          /\ UNCHANGED stages
     ELSE /\ pc' = "verifyConnect"
          /\ stages' = Append(stages, "verify")

\* case "<name>": await Model.insertMany(docs); break
InsertMany ==
  /\ pc = "switch"
  /\ ModelOf(items[idx]) # "none"
  /\ inserts' = Append(inserts, << idx, ModelOf(items[idx]) >>)
  /\ \E out \in insertMany(db[ModelOf(items[idx])], fixtures[items[idx]]) :
       /\ db' = [db EXCEPT ![ModelOf(items[idx])] = out.content]
       /\ IF out.ok
          THEN /\ LoopNext
               /\ UNCHANGED failed
          ELSE /\ pc' = "catch"
               /\ failed' = "insert"
               /\ UNCHANGED << idx, stages >>
  /\ UNCHANGED << items, delIdx, cntIdx, thrown, errors, reported,
                  successPrinted, sessionsStarted, sessionsEnded, resetDone,
                  dbAtReset, exitCodes, envVars >>

\* default: console.log(`Invalid collection name: ${collection}`); break
InvalidName ==
  /\ pc = "switch"
  /\ ModelOf(items[idx]) = "none"
  /\ LoopNext
  /\ UNCHANGED << db, items, delIdx, cntIdx, thrown, failed, errors, inserts,
                  reported, successPrinted, sessionsStarted, sessionsEnded,
                  resetDone, dbAtReset, exitCodes, envVars >>

\* ------------------------------------------------- checkCountAfterImport
\* await connect("talawa-api"); an error is caught and logged
VerifyConnect ==
  /\ pc = "verifyConnect"
  /\ \E ok \in BOOLEAN :
       IF ok
       THEN /\ pc' = "count"
            /\ UNCHANGED errors
       ELSE /\ pc' = "success"
            /\ errors' = errors \cup {"verify"}
  /\ cntIdx' = 1
  /\ UNCHANGED << db, items, idx, delIdx, thrown, failed, stages, inserts,
                  reported, successPrinted, sessionsStarted, sessionsEnded,
                  resetDone, dbAtReset, exitCodes, envVars >>

\* const count = await model.countDocuments(); console.log(name, count)
CountDocuments ==
  /\ pc = "count"
  /\ cntIdx \in DOMAIN countTable
  /\ \E ok \in BOOLEAN :
       IF ok
       THEN /\ reported' = Append(reported,
                 << countTable[cntIdx][1], Count(db[countTable[cntIdx][2]]) >>)
            /\ cntIdx' = cntIdx + 1
            /\ UNCHANGED << pc, errors >>
       ELSE /\ pc' = "success"
            /\ errors' = errors \cup {"verify"}
            /\ UNCHANGED << reported, cntIdx >>
  /\ UNCHANGED << db, items, idx, delIdx, thrown, failed, stages, inserts,
                  successPrinted, sessionsStarted, sessionsEnded, resetDone,
                  dbAtReset, exitCodes, envVars >>

\* the loop of checkCountAfterImport is over and the function returns
CountDone ==
  /\ pc = "count"
  /\ cntIdx = Len(countTable) + 1
  /\ pc' = "success"
  /\ UNCHANGED << db, items, idx, delIdx, cntIdx, thrown, failed, errors,
                  stages, inserts, reported, successPrinted, sessionsStarted,
                  sessionsEnded, resetDone, dbAtReset, exitCodes, envVars >>

\* console.log("\nCollections added successfully")
PrintSuccess ==
  /\ pc = "success"
  /\ successPrinted' = TRUE
  /\ pc' = "finally"
  /\ UNCHANGED << db, items, idx, delIdx, cntIdx, thrown, failed, errors,
                  stages, inserts, reported, sessionsStarted, sessionsEnded,
                  resetDone, dbAtReset, exitCodes, envVars >>

\* a handler that logs and still runs checkCountAfterImport
CatchThenVerify ==
  /\ pc = "catch"
  /\ errors' = errors \cup {"load"}
  /\ stages' = Append(stages, "verify")
  /\ pc' = "verifyConnect"
  /\ UNCHANGED << db, items, idx, delIdx, cntIdx, thrown, failed, inserts,
                  reported, successPrinted, sessionsStarted, sessionsEnded,
                  resetDone, dbAtReset, exitCodes, envVars >>

\* a handler inside the loop: logs and goes on with the next name
CatchThenContinue ==
  /\ pc = "catch"
  /\ errors' = errors \cup {"load"}
  /\ IF resetDone
     THEN LoopNext
     ELSE /\ pc' = "finally"
          /\ UNCHANGED << idx, stages >>
  /\ UNCHANGED << db, items, delIdx, cntIdx, thrown, failed, inserts,
                  reported, successPrinted, sessionsStarted, sessionsEnded,
                  resetDone, dbAtReset, exitCodes, envVars >>

\* catch (err) { console.error(`Error adding collections: ${err}`) }
CatchHandler ==
  /\ pc = "catch"
  /\ errors' = errors \cup {"load"}
  /\ pc' = "finally"
  /\ UNCHANGED << db, items, idx, delIdx, cntIdx, thrown, failed, stages,
                  inserts, reported, successPrinted, sessionsStarted,
                  sessionsEnded, resetDone, dbAtReset, exitCodes, envVars >>

\* an exit whose code tells a failed load from a successful one
ProcessExitStatus ==
  /\ pc = "finally"
  /\ exitCodes' = Append(exitCodes, IF failed = "none" THEN 0 ELSE 1)
  /\ stages' = Append(stages, "exit")
  /\ pc' = "exited"
  /\ UNCHANGED << db, items, idx, delIdx, cntIdx, thrown, failed, errors,
                  inserts, reported, successPrinted, sessionsStarted,
                  sessionsEnded, resetDone, dbAtReset, envVars >>

\* finally { process.exit(0) }
ProcessExit ==
  /\ pc = "finally"
  /\ exitCodes' = Append(exitCodes, 0)
  /\ stages' = Append(stages, "exit")
  /\ pc' = "exited"
  /\ UNCHANGED << db, items, idx, delIdx, cntIdx, thrown, failed, errors,
                  inserts, reported, successPrinted, sessionsStarted,
                  sessionsEnded, resetDone, dbAtReset, envVars >>

\* The script is started a second time with the same arguments and the
\* same fixture files, on the database the first run left.
Rerun ==
  /\ pc = "exited"
  /\ ~rerun
  /\ rerun' = TRUE
  /\ firstCounts' = Counts(db)
  /\ firstFailed' = failed
  /\ pc' = "main"
  /\ items' = << >>
  /\ idx' = 1
  /\ delIdx' = 1
  /\ cntIdx' = 1
  /\ thrown' = FALSE
  /\ failed' = "none"
  /\ errors' = {}
  /\ stages' = << >>
  /\ inserts' = << >>
  /\ reported' = << >>
  /\ successPrinted' = FALSE
  /\ sessionsStarted' = 0
  /\ sessionsEnded' = 0
  /\ resetDone' = FALSE
  /\ exitCodes' = << >>
  /\ dbAtReset' = db
  /\ UNCHANGED << argvItems, fixtures, db >>

\* ------------------------------------------------------- specifications
Next ==
  \/ Main
  \/ ListSampleData
  \/ Connect
  \/ StartSession
  \/ DeleteStep
  \/ CommitTransaction
  \/ ResetCatch
  \/ EndSession
  \/ ReadFile
  \/ ParseJson
  \/ InsertMany
  \/ InvalidName
  \/ VerifyConnect
  \/ CountDocuments
  \/ CountDone
  \/ PrintSuccess
  \/ CatchHandler
  \/ ProcessExit

\* one run of the script
Spec == Init /\ [][Next]_vars

\* one run; every step of the script is an awaited call that completes or
\* rejects, so the script does not stop while a step is enabled
FairSpec == Init /\ [][Next]_vars /\ WF_vars(Next)

\* two runs in succession
NextTwice == Next \/ Rerun

InitTwice ==
  /\ Init
  /\ fixtures["users"].kind \in {"ids", "noids"}
  /\ fixtures["events"].kind = "ids"

SpecTwice == InitTwice /\ [][NextTwice]_vars

\* ------------------------------------------------------------ properties
\* the model checkCountAfterImport counts for a collection name
CountedModel(name) ==
  countTable[CHOOSE i \in DOMAIN countTable : countTable[i][1] = name][2]

\* the nine collections of the verification table
NineModels == { countTable[i][2] : i \in DOMAIN countTable }

Occurrences(s, x) == Cardinality({ i \in DOMAIN s : s[i] = x })

StageOrder == << "list", "reset", "load", "verify", "exit" >>

StagePos(st) == CHOOSE i \in DOMAIN StageOrder : StageOrder[i] = st

\* the stages entered so far respect List -> Reset -> Load -> Verify -> exit,
\* none entered twice, the listing first
InOrder ==
  /\ \A i, j \in DOMAIN stages :
       i < j => StagePos(stages[i]) < StagePos(stages[j])
  /\ stages # << >> => stages[1] = "list"
  /\ pc = "exited" => stages[Len(stages)] = "exit"

\* resetDatabase is running
InReset == pc \in {"startSession", "transaction", "resetCatch", "resetFinally"}

\* resetDatabase was called and has returned or thrown
ResetOver == "reset" \in Range(stages) /\ ~InReset

\* the Reset+Load stage is over and nothing in it failed
LoadCompleted == "verify" \in Range(stages) /\ failed = "none"

\* C1: once resetDatabase has returned or thrown (and before any insert),
\* either all nine collections are empty or the database is what it was
\* when the reset began.
C1_ResetAllOrNothing ==
  (ResetOver /\ inserts = << >>) =>
     \/ \A m \in NineModels : Count(db[m]) = 0
     \/ db = dbAtReset

\* C2: for a name of the list that is not one of the nine fixed names no
\* insert is issued and the loop is not stopped at that name, whatever
\* fixture files exist.
C2_InvalidNameSkipped ==
  \A i \in DOMAIN items :
     items[i] \notin FixedNames =>
        /\ \A k \in DOMAIN inserts : inserts[k][1] # i
        /\ ~(failed # "none" /\ resetDone /\ idx = i)

\* C3: every run reaches the terminal state "process exit", and every exit
\* code is 0, whichever stage reported an error.
C3_AlwaysExitsZero ==
  /\ <>(pc = "exited")
  /\ [](\A i \in DOMAIN exitCodes : exitCodes[i] = 0)

C3_Witness ==
  /\ pc = "exited"
  /\ "list" \in errors
  /\ failed = "insert"
  /\ exitCodes = << 0 >>

\* C4 as claimed: the stages are entered in pipeline order, each at most
\* once, and checkCountAfterImport is run before the process exits whatever
\* the earlier stages did.
C4_VerifyAlwaysRuns ==
  /\ InOrder
  /\ pc = "exited" => "verify" \in Range(stages)

\* C4 amended: the stages are entered in pipeline order, each at most once,
\* and checkCountAfterImport is run before the exit exactly when connect,
\* the reset and every step of the load succeeded.
C4_LinearPipeline ==
  /\ InOrder
  /\ pc = "exited" => ("verify" \in Range(stages) <=> failed = "none")

C4_Witness ==
  /\ pc = "exited"
  /\ failed = "read"
  /\ stages = << "list", "reset", "load", "exit" >>

\* C5 as claimed: when the load completes without error, every fixed name
\* of the list has as many documents as its fixture has records, also when
\* the name is listed more than once.
C5_CountEqualsFixture ==
  LoadCompleted =>
     \A n \in Range(items) \cap FixedNames :
        Count(db[CountedModel(n)]) = fixtures[n].len

\* C5 amended: when the load completes without error, every fixed name of
\* the list has as many documents as its fixture has records, times the
\* number of times the name is listed.
C5_CountEqualsFixturePerOccurrence ==
  LoadCompleted =>
     \A n \in Range(items) \cap FixedNames :
        Count(db[CountedModel(n)]) = Occurrences(items, n) * fixtures[n].len

C5_Witness ==
  /\ pc = "exited"
  /\ LoadCompleted
  /\ items = << "users", "users" >>
  /\ Count(dbAtReset["User"]) > 0
  /\ Count(db["User"]) = 2 * fixtures["users"].len

\* C6: inserts are issued only for names of the selection; once the
\* verification stage is entered every fixed collection outside the
\* selection holds no document and is reported with count 0, and a
\* verification that ran to its end reported all nine collections.
C6_UnselectedEmpty ==
  /\ \A k \in DOMAIN inserts :
       inserts[k][2] \in { CountedModel(n) : n \in Range(items) \cap FixedNames }
  /\ LoadCompleted =>
       /\ \A n \in FixedNames \ Range(items) : Count(db[CountedModel(n)]) = 0
       /\ \A k \in DOMAIN reported :
            reported[k][1] \notin Range(items) => reported[k][2] = 0
       /\ (pc = "exited" /\ "verify" \notin errors) =>
            { reported[k][1] : k \in DOMAIN reported } = FixedNames

C6_Witness ==
  /\ pc = "exited"
  /\ argvItems = << "users", "events" >>
  /\ Len(inserts) = 2
  /\ Len(reported) = 9
  /\ Count(dbAtReset["Post"]) > 0
  /\ Count(db["Post"]) = 0
  /\ Count(db["User"]) > 0

C8_ResetBeforeInsert ==
  [][ (inserts = << >> /\ inserts' # << >>) =>
        /\ resetDone
        /\ "reset" \notin errors
        /\ \A m \in NineModels : Count(db[m]) = 0 ]_vars

C8_Witness ==
  /\ inserts # << >>
  /\ \A m \in NineModels : Count(dbAtReset[m]) > 0

\* C9: once resetDatabase has returned or thrown, every session it started
\* has been ended exactly once, and a failed deletion has reached the
\* caller's handler instead of letting the load go on.
C9_SessionReleased ==
  ResetOver =>
     /\ sessionsStarted <= 1
     /\ sessionsEnded = sessionsStarted
     /\ "reset" \in errors => (failed = "reset" /\ ~resetDone /\ inserts = << >>)

C9_Witness ==
  /\ pc = "exited"
  /\ "reset" \in errors
  /\ failed = "reset"
  /\ sessionsStarted = 1
  /\ sessionsEnded = 1

\* C10: after a failure of connect, reset, read, parse or insert no further
\* insert is issued, the database keeps what it holds (documents inserted
\* before the failure included), the success message is not printed, and
\* a failure of connect or reset means no insert was issued at all.
C10_FailureStopsLoading ==
  [][ failed # "none" =>
        /\ inserts' = inserts
        /\ db' = db
        /\ ~successPrinted'
        /\ "verify" \notin Range(stages')
        /\ failed \in {"connect", "reset"} => inserts = << >> ]_vars

C10_Witness ==
  /\ pc = "exited"
  /\ failed = "insert"
  /\ items = << "users", "events" >>
  /\ idx = 2
  /\ ~successPrinted
  /\ Count(db["User"]) = fixtures["users"].len
====
